---- MODULE Spec2Model ----
(***************************************************************************)
(* X-Racer: the flight physics and race progression of src/App.tsx.        *)
(*                                                                         *)
(* Numbers.  The program computes in IEEE doubles; the model computes in   *)
(* fixed point and rounds every product to the nearest representable value *)
(* (ties to even), as the floating-point unit does.                        *)
(*   lengths and positions          : hundredths of a world unit           *)
(*   velocities                     : ten-thousandths of a unit per frame  *)
(*   angles                         : thousandths of a radian              *)
(*   sines, cosines, unit vectors   : thousandths                          *)
(*   shipScale                      : tenths (the slider's step)           *)
(*   stick axes                     : whole deflections (-1, 0, 1)         *)
(*                                                                         *)
(* React.  setGameState(updater) queues the updater; the queued updaters   *)
(* are applied in order at the next render, and the frame callback and the *)
(* buttons see the gameState of the last render until then.                *)
(***************************************************************************)
EXTENDS Integers, Sequences, FiniteSets, TLC

VARIABLES
    gameState,     \* App.tsx:185  the gameState of the last render
    updateQueue,   \* setGameState updaters queued since the last render
    staleFrames,   \* frames run while those updaters waited for the render
    fetches,       \* handleStart calls suspended at await generateBriefing
    showConfig,    \* App.tsx:173
    arEnabled,     \* App.tsx:174
    shipScale,     \* App.tsx:176  (tenths)
    controls,      \* App.tsx:195
    velocity,      \* App.tsx:82   GameLoop ref
    position,      \* App.tsx:83   GameLoop ref
    rotation       \* App.tsx:84   GameLoop ref

vars == <<gameState, updateQueue, staleFrames, fetches, showConfig, arEnabled, shipScale,
          controls, velocity, position, rotation>>

craft == <<velocity, position, rotation>>
ui    == <<showConfig, arEnabled, shipScale>>

---------------------------------------------------------------------------
(* Bounds of the model *)

MaxQueue == 5        \* updaters that may wait for one render
MaxStaleFrames == 4  \* frames that may run before a requested render
MaxFetches == 1      \* briefing requests in flight together

---------------------------------------------------------------------------
(* Program constants *)

DRAG == 94                     \* 0.94, hundredths
ROTATION_SPEED == 40           \* 0.04 rad, thousandths
THRUST_POWER == 300            \* 0.03, ten-thousandths
GATE_DETECTION_RADIUS == 12    \* 1.2, tenths
PI == 3142                     \* Math.PI, thousandths of a radian

shipConfig ==
    [chassis |-> "interceptor",
     stats   |-> [speed |-> 7, durability |-> 4, handling |-> 8]]

gates == << <<0, 180, -1200>>, <<1000, 300, -2500>>, <<-800, 150, -4000>>,
            <<500, 500, -5500>>, <<0, 200, -7500>> >>

SpawnPosition == <<0, 150, -800>>
ZeroVector    == <<0, 0, 0>>
SpawnRotation == <<0, PI, 0>>

InitialGameState ==
    [isPlaying |-> FALSE, score |-> 0, time |-> 0, currentGate |-> 0,
     totalGates |-> 5, briefing |-> "awaiting", isGameOver |-> FALSE]

InitialControls == [throttle |-> 0, yaw |-> 0, pitch |-> 0, roll |-> 0]

\* what generateBriefing resolves to: a string (the generated text, the
\* default for an empty text or the message of the catch branch; the program
\* treats the three alike and the model does not tell them apart)
BriefingResults == {"briefing"}

---------------------------------------------------------------------------
(* Fixed-point arithmetic *)

\* n / d rounded to the nearest integer, ties to even (d > 0)
RoundDiv(n, d) ==
    LET q == n \div d
        r == n % d
    IN  IF 2 * r < d THEN q
        ELSE IF 2 * r > d THEN q + 1
        ELSE IF q % 2 = 0 THEN q ELSE q + 1

Min(a, b) == IF a < b THEN a ELSE b
Max(a, b) == IF a > b THEN a ELSE b

\* sine of a (thousandths of a radian), in thousandths
SinSeries(a) ==
    LET a2 == RoundDiv(a * a, 1000)
        t3 == RoundDiv(a * a2, 6000)
        t5 == RoundDiv(t3 * a2, 20000)
        t7 == RoundDiv(t5 * a2, 42000)
    IN  a - t3 + t5 - t7

Sin(a) ==
    LET w == ((a + PI) % (2 * PI)) - PI        \* into [-PI, PI)
        h == IF w > PI \div 2 THEN PI - w
             ELSE IF w < -(PI \div 2) THEN -PI - w
             ELSE w
    IN  Max(-1000, Min(1000, SinSeries(h)))

Cos(a) == Sin(a + PI \div 2)

\* Vector3(0, 0, -1).applyEuler(e), Euler order XYZ, in thousandths
Forward(e) ==
    << -Sin(e[2]),
       RoundDiv(Sin(e[1]) * Cos(e[2]), 1000),
       -RoundDiv(Cos(e[1]) * Cos(e[2]), 1000) >>

Add(u, v) == <<u[1] + v[1], u[2] + v[2], u[3] + v[3]>>

\* squared length and squared distance, in ten-thousandths
LengthSq(u) == u[1] * u[1] + u[2] * u[2] + u[3] * u[3]
DistanceSq(u, v) == LengthSq(<<u[1] - v[1], u[2] - v[2], u[3] - v[3]>>)

---------------------------------------------------------------------------
(* The frame callback, App.tsx:86-132 *)

StickGain(axis, speed, stat) == RoundDiv(axis * speed * stat, 5)

\* forward * (throttle * THRUST_POWER * (stats.speed / 5)), ten-thousandths
Thrust(rot, c) ==
    LET f == Forward(rot)
        k == c.throttle * THRUST_POWER * shipConfig.stats.speed
    IN  << RoundDiv(f[1] * k, 5000), RoundDiv(f[2] * k, 5000),
           RoundDiv(f[3] * k, 5000) >>

\* rotation.y -= yaw..., rotation.x += pitch..., rotation.z -= roll...
Rotate(rot, c) ==
    LET h == shipConfig.stats.handling
    IN  << rot[1] + StickGain(c.pitch, ROTATION_SPEED, h),
           rot[2] - StickGain(c.yaw, ROTATION_SPEED, h),
           rot[3] - StickGain(c.roll, ROTATION_SPEED, h) >>

\* a frame that forgets the drag
NoDrag(v) == v

\* velocity.multiplyScalar(DRAG)
Drag(v) ==
    << RoundDiv(v[1] * DRAG, 100), RoundDiv(v[2] * DRAG, 100),
       RoundDiv(v[3] * DRAG, 100) >>

\* position.add(velocity): the sum rounded to the position's precision
Move(p, v) ==
    << p[1] + RoundDiv(v[1], 100), p[2] + RoundDiv(v[2], 100),
       p[3] + RoundDiv(v[3], 100) >>

\* thrust, rotation, drag, position += velocity
Integrate(k, c) ==
    LET v == Drag(Add(k.velocity, Thrust(k.rotation, c)))
    IN  [velocity |-> v,
         position |-> Move(k.position, v),
         rotation |-> Rotate(k.rotation, c)]

\* a clamp whose height range lost its ceiling
ClampWithoutCeiling(p) ==
    << Min(1500, Max(-1500, p[1])),
       Max(20, p[2]),
       Min(-200, Max(-4000, p[3])) >>

\* the AR branch: each axis clamped on its own
ClampToViableArea(p) ==
    << Min(1500, Max(-1500, p[1])),
       Min(1000, Max(20, p[2])),
       Min(-200, Max(-4000, p[3])) >>

OutOfRange(p) == LengthSq(p) > 15000 * 15000

\* a recovery that moves the craft home and leaves it its speed
RecoverKeepingSpeed(k) ==
    IF OutOfRange(k.position)
    THEN [k EXCEPT !.position = SpawnPosition]
    ELSE k

\* the VR branch: back to the spawn point, at rest, beyond 150 units
RecoverIfLost(k) ==
    IF OutOfRange(k.position)
    THEN [k EXCEPT !.position = SpawnPosition, !.velocity = ZeroVector]
    ELSE k

Enforce(k, ar) ==
    IF ar THEN [k EXCEPT !.position = ClampToViableArea(k.position)]
    ELSE RecoverIfLost(k)

DetectionRadius(scale) == GATE_DETECTION_RADIUS * (scale + 5)

\* dist < GATE_DETECTION_RADIUS * (shipScale + 0.5)
InsideGate(p, g, scale) ==
    DistanceSq(p, g) < DetectionRadius(scale) * DetectionRadius(scale)

Racing(gs) == gs.isPlaying /\ ~gs.isGameOver

\* the setGameState updaters
Updater(kind, text) == [kind |-> kind, briefing |-> text]

AdvanceGate(prev) ==
    [prev EXCEPT !.currentGate = @ + 1, !.score = @ + 100]

\* a finish that forgets to stop the race
FinishStillPlaying(prev) ==
    [prev EXCEPT !.isGameOver = TRUE]

\* a finish that pays for the last gate like for the others
FinishWithPoints(prev) ==
    [prev EXCEPT !.isGameOver = TRUE, !.isPlaying = FALSE, !.score = @ + 100]

FinishRace(prev) ==
    [prev EXCEPT !.isGameOver = TRUE, !.isPlaying = FALSE]

RequestClearance(prev) ==
    [prev EXCEPT !.briefing = "requesting"]

StartRace(prev, text) ==
    [prev EXCEPT !.isPlaying = TRUE, !.briefing = text, !.currentGate = 0,
                 !.score = 0, !.time = 0, !.isGameOver = FALSE]

ApplyUpdate(u, prev) ==
    CASE u.kind = "advance"    -> AdvanceGate(prev)
      [] u.kind = "finish"     -> FinishRace(prev)
      [] u.kind = "requesting" -> RequestClearance(prev)
      [] u.kind = "start"      -> StartRace(prev, u.briefing)

\* the state after the first n queued updaters
RECURSIVE ApplyFirst(_, _, _)
ApplyFirst(q, n, gs) ==
    IF n = 0 THEN gs ELSE ApplyUpdate(q[n], ApplyFirst(q, n - 1, gs))

ApplyAll(q, gs) == ApplyFirst(q, Len(q), gs)

\* Gate Detection: the updaters one frame queues, from the gameState the
\* callback closed over and the position after enforcement
GateUpdates(gs, p, scale) ==
    IF gs.currentGate \in 0 .. Len(gates) - 1
       /\ InsideGate(p, gates[gs.currentGate + 1], scale)
    THEN IF gs.currentGate = Len(gates) - 1
         THEN << Updater("finish", "") >>
         ELSE << Updater("advance", "") >>
    ELSE << >>

CraftNow == [velocity |-> velocity, position |-> position, rotation |-> rotation]

AfterFrame == Enforce(Integrate(CraftNow, controls), arEnabled)

useFrame ==
    /\ Racing(gameState)
    /\ LET k == AfterFrame
           u == GateUpdates(gameState, k.position, shipScale)
       IN  /\ Len(updateQueue) + Len(u) <= MaxQueue
           /\ updateQueue /= << >> => staleFrames < MaxStaleFrames
           /\ staleFrames' = IF updateQueue = << >> THEN 0 ELSE staleFrames + 1
           /\ velocity' = k.velocity
           /\ position' = k.position
           /\ rotation' = k.rotation
           /\ updateQueue' = updateQueue \o u
    /\ UNCHANGED <<gameState, fetches, ui, controls>>

---------------------------------------------------------------------------
(* The App component's handlers *)

\* handleStart up to its await (Ignition Start, RELAUNCH)
handleStart ==
    /\ showConfig \/ gameState.isGameOver
    /\ fetches < MaxFetches
    /\ Len(updateQueue) < MaxQueue
    /\ showConfig' = FALSE
    /\ updateQueue' = Append(updateQueue, Updater("requesting", ""))
    /\ fetches' = fetches + 1
    /\ UNCHANGED <<gameState, staleFrames, arEnabled, shipScale, controls, craft>>

\* generateBriefing resolves and handleStart runs on from its await
briefingResolved ==
    /\ fetches > 0
    /\ Len(updateQueue) < MaxQueue
    /\ \E text \in BriefingResults :
          updateQueue' = Append(updateQueue, Updater("start", text))
    /\ fetches' = fetches - 1
    /\ UNCHANGED <<gameState, staleFrames, ui, controls, craft>>

\* React renders: the queued updaters are applied in order
Render ==
    /\ updateQueue /= << >>
    /\ gameState' = ApplyAll(updateQueue, gameState)
    /\ updateQueue' = << >>
    /\ staleFrames' = 0
    /\ UNCHANGED <<fetches, ui, controls, craft>>

\* HANGAR DECK on the result screen
openHangar ==
    /\ gameState.isGameOver
    /\ ~showConfig
    /\ showConfig' = TRUE
    /\ UNCHANGED <<gameState, updateQueue, staleFrames, fetches, arEnabled, shipScale,
                   controls, craft>>

\* the Scale Adjustment slider of the hangar menu
ShipScales == {10, 40}

setShipScale ==
    /\ showConfig
    /\ \E s \in ShipScales : s /= shipScale /\ shipScale' = s
    /\ UNCHANGED <<gameState, updateQueue, staleFrames, fetches, showConfig, arEnabled,
                   controls, craft>>

\* the camera passthrough button of the hangar menu; getUserMedia may fail.
\* (Both modes are sampled in FrameSpec; Spec and HangarSpec stay in the
\* mode the program starts in.)
toggleAR ==
    /\ showConfig
    /\ \/ arEnabled' = ~arEnabled
       \/ ~arEnabled /\ arEnabled' = arEnabled
    /\ UNCHANGED <<gameState, updateQueue, staleFrames, fetches, showConfig, shipScale,
                   controls, craft>>

\* the left stick pulled fully back: onMove(0, -1)
StickSamples == { <<0, -1>> }

onMove ==
    /\ gameState.isPlaying
    /\ \E s \in StickSamples :
          /\ controls' = [controls EXCEPT !.yaw = -s[1], !.throttle = s[2]]
          /\ controls' /= controls
    /\ UNCHANGED <<gameState, updateQueue, staleFrames, fetches, ui, craft>>

Init ==
    /\ gameState = InitialGameState
    /\ updateQueue = << >>
    /\ staleFrames = 0
    /\ fetches = 0
    /\ showConfig = TRUE
    /\ arEnabled = FALSE
    /\ shipScale = 10
    /\ controls = InitialControls
    /\ velocity = ZeroVector
    /\ position = SpawnPosition
    /\ rotation = SpawnRotation

Next ==
    \/ useFrame
    \/ handleStart
    \/ briefingResolved
    \/ Render
    \/ openHangar
    \/ onMove

\* the program from its construction, flown with the hangar's settings as
\* they are at mount (free mode, scale 1.0)
Spec == Init /\ [][Next]_vars

HangarNext ==
    \/ Next
    \/ setShipScale

\* the same, with the scale slider in use
HangarSpec == Init /\ [][HangarNext]_vars

---------------------------------------------------------------------------
(* The frame callback on its own: a race under way, sampled at the poses,  *)
(* speeds, stick positions, scales and modes below.  A frame runs from the *)
(* sampled state, more frames run while its updater waits for the render,  *)
(* and the render ends the run.                                            *)

\* at rest; at full speed down the course; climbing and drifting sideways
FrameVelocities == { ZeroVector, <<0, 0, -6580>>, <<2500, 3000, 0>> }

\* the spawn point; just inside each gate; on the edge of gate 0's sphere
\* at scale 1.0; outside the viable area on every axis, high and low; on
\* the sphere of 150 units and just inside it
FramePositions ==
    { SpawnPosition,
      <<0, 180, -1205>>, <<1000, 300, -2450>>, <<-800, 150, -3950>>,
      <<500, 500, -5450>>, <<0, 200, -7450>>,
      <<0, 180, -1380>>,
      <<1600, 1500, -100>>, <<-1600, 10, -4100>>,
      <<0, 0, -15000>>, <<0, 150, -14990>> }

FrameRotations == { SpawnRotation, <<64, PI - 640, 0>> }

\* sticks centred; throttle back; throttle forward with the craft turning
FrameControls ==
    { InitialControls,
      [throttle |-> -1, yaw |-> 0, pitch |-> 0, roll |-> 0],
      [throttle |-> 1, yaw |-> 1, pitch |-> -1, roll |-> 1] }

\* the slider's least, first and greatest values
FrameScales == {5, 10, 40}

MidRace(g) ==
    [InitialGameState EXCEPT !.isPlaying = TRUE, !.briefing = "briefing",
                             !.currentGate = g, !.score = 100 * g]

FrameInit ==
    /\ \E g \in 0 .. Len(gates) - 1 : gameState = MidRace(g)
    /\ updateQueue = << >>
    /\ staleFrames = 0
    /\ fetches = 0
    /\ showConfig = FALSE
    /\ arEnabled \in BOOLEAN
    /\ shipScale \in FrameScales
    /\ controls \in FrameControls
    /\ velocity \in FrameVelocities
    /\ position \in FramePositions
    /\ rotation \in FrameRotations

FrameNext ==
    \/ FrameInit /\ useFrame
    \/ updateQueue /= << >> /\ useFrame
    \/ Render

FrameSpec == FrameInit /\ [][FrameNext]_vars

---------------------------------------------------------------------------
(* The program from its construction with the hangar's mode button and     *)
(* scale slider used before the first Ignition Start: a race begun in AR   *)
(* mode runs all its frames in AR mode.                                    *)

BeforeFirstStart ==
    /\ gameState = InitialGameState
    /\ updateQueue = << >>
    /\ fetches = 0

ARNext ==
    \/ Next
    \/ BeforeFirstStart /\ toggleAR
    \/ BeforeFirstStart /\ setShipScale

ARSpec == Init /\ [][ARNext]_vars

---------------------------------------------------------------------------
(* The craft coasting: a race under way with both sticks released, at a    *)
(* sampled pose and speed; frame follows frame until the velocity settles. *)

CoastPositions == { SpawnPosition, <<0, 180, -1205>>, <<0, 150, -14990>> }

CoastInit ==
    /\ \E g \in {0, Len(gates) - 1} : gameState = MidRace(g)
    /\ updateQueue = << >>
    /\ staleFrames = 0
    /\ fetches = 0
    /\ showConfig = FALSE
    /\ arEnabled \in BOOLEAN
    /\ shipScale = 10
    /\ controls = InitialControls
    /\ velocity \in FrameVelocities
    /\ position \in CoastPositions
    /\ rotation \in FrameRotations

CoastNext ==
    \/ useFrame
    \/ Render

CoastSpec == CoastInit /\ [][CoastNext]_vars

---------------------------------------------------------------------------
(* The claims *)

LastGate == Len(gates) - 1

\* the race state after the first i queued updaters have run
Prefix(i) == ApplyFirst(updateQueue, i, gameState)

RaceFields(gs) == <<gs.score, gs.currentGate, gs.isPlaying, gs.isGameOver>>

\* C1: while the race is under way (isPlaying and not isGameOver) the index
\* of the active gate is one of the course: 0 <= currentGate < totalGates.
C1_GateIndexInRange ==
    Racing(gameState) =>
        gameState.currentGate \in 0 .. gameState.totalGates - 1

\* C2: from one state of a race under way to the next, neither currentGate
\* nor score decreases.
C2_NeverDecreases ==
    [][ (Racing(gameState) /\ Racing(gameState')) =>
            /\ gameState'.currentGate >= gameState.currentGate
            /\ gameState'.score >= gameState.score ]_vars

\* C3: a start whose state update runs while the race is under way changes
\* none of score, currentGate, isPlaying, isGameOver.
C3_StartWhileRacingIsNoOp ==
    \A i \in 1 .. Len(updateQueue) :
        (updateQueue[i].kind = "start" /\ Racing(Prefix(i - 1))) =>
            RaceFields(Prefix(i)) = RaceFields(Prefix(i - 1))

\* C4: every start that puts the race under way finds the craft reset: at
\* the spawn point, at rest, heading (0, pi, 0).
C4_StartResetsCraft ==
    [][ (~Racing(gameState) /\ Racing(gameState')) =>
            /\ position' = SpawnPosition
            /\ velocity' = ZeroVector
            /\ rotation' = SpawnRotation ]_vars

\* C5: isGameOver implies not isPlaying, in the rendered state and after
\* every updater still waiting to run.
C5_GameOverNotPlaying ==
    \A i \in 0 .. Len(updateQueue) :
        Prefix(i).isGameOver => ~Prefix(i).isPlaying

\* a finished race with a restart's update about to run
C5_Witness ==
    /\ gameState.isGameOver
    /\ ~gameState.isPlaying
    /\ \E i \in 1 .. Len(updateQueue) : updateQueue[i].kind = "start"

\* C6: while the race is under way every advance of currentGate is by
\* exactly 1, comes with exactly 100 more score and leaves the race under
\* way: no gate index is skipped.
C6_AdvanceByOne ==
    [][ (Racing(gameState) /\ gameState'.currentGate > gameState.currentGate) =>
            /\ gameState'.currentGate = gameState.currentGate + 1
            /\ gameState'.score = gameState.score + 100
            /\ Racing(gameState') ]_vars

\* C7: a frame of a race under way that finds the craft inside the last
\* gate queues the finishing update and no other, and that update, when it
\* runs, sets isGameOver, clears isPlaying and leaves score and currentGate
\* as they were.
C7_FinalGateFinishes ==
    [][ /\ (useFrame /\ gameState.currentGate = LastGate
              /\ DistanceSq(position', gates[LastGate + 1])
                    < (12 * (shipScale + 5)) * (12 * (shipScale + 5))) =>
            updateQueue' = Append(updateQueue, Updater("finish", ""))
        /\ (updateQueue /= << >> /\ updateQueue' = << >>) =>
            \A i \in 1 .. Len(updateQueue) :
                updateQueue[i].kind = "finish" =>
                    /\ Prefix(i).isGameOver
                    /\ ~Prefix(i).isPlaying
                    /\ Prefix(i).score = Prefix(i - 1).score
                    /\ Prefix(i).currentGate = Prefix(i - 1).currentGate
                    /\ (i = Len(updateQueue) => gameState' = Prefix(i)) ]_vars

\* the race finished at the last gate
C7_Witness ==
    /\ gameState.isGameOver
    /\ ~gameState.isPlaying
    /\ gameState.currentGate = LastGate
    /\ DistanceSq(position, gates[LastGate + 1])
          < (12 * (shipScale + 5)) * (12 * (shipScale + 5))

Saturates(a, lo, hi, b) ==
    /\ a < lo => b = lo
    /\ a > hi => b = hi
    /\ a \in lo .. hi => b = a

\* C8: after every frame of a race under way in AR mode the position has
\* x in [-15, 15], y in [0.2, 10], z in [-40, -2], each axis being the
\* integrated one brought to the bound it passed, and the velocity is the
\* integrated one.
C8_ConfinedToViableArea ==
    [][ (useFrame /\ arEnabled) =>
            LET m == Integrate(CraftNow, controls)
            IN  /\ Saturates(m.position[1], -1500, 1500, position'[1])
                /\ Saturates(m.position[2], 20, 1000, position'[2])
                /\ Saturates(m.position[3], -4000, -200, position'[3])
                /\ velocity' = m.velocity ]_vars

\* the craft held at the ceiling and the near and right walls, still moving
C8_Witness ==
    /\ arEnabled
    /\ position = <<1500, 1000, -200>>
    /\ velocity[2] > 0

\* C9: in free mode a frame whose integrated position is more than 150
\* units from the origin leaves the craft at (0, 1.5, -8) at rest; any other
\* frame leaves the integrated position and velocity as they are; so the
\* position after a frame is never more than 150 units out.
C9_RecoveryBeyond150 ==
    [][ (useFrame /\ ~arEnabled) =>
            LET m == Integrate(CraftNow, controls)
            IN  /\ LengthSq(m.position) > 15000 * 15000 =>
                    position' = <<0, 150, -800>> /\ velocity' = <<0, 0, 0>>
                /\ LengthSq(m.position) <= 15000 * 15000 =>
                    position' = m.position /\ velocity' = m.velocity
                /\ LengthSq(position') <= 15000 * 15000 ]_vars

\* the craft back at the spawn point, at rest, after a frame that turned it
C9_Witness ==
    /\ ~arEnabled
    /\ position = SpawnPosition
    /\ velocity = ZeroVector
    /\ rotation \notin FrameRotations

\* C10: a start request puts the race under way without waiting for the
\* briefing: the update that sets isPlaying is queued by handleStart itself.
C10_StartDoesNotWait ==
    [][ handleStart =>
            \E i \in 1 .. Len(updateQueue') :
                updateQueue'[i].kind = "start" ]_vars

---------------------------------------------------------------------------
\* C11: shipScale is fixed for the duration of a race: between two states
\* that are both Racing shipScale does not change, and the hangar menu,
\* which hosts the scale slider, is not shown while the race is Racing.
C11_ScaleFixedWhileRacing ==
    [][ (Racing(gameState) /\ Racing(gameState')) =>
            /\ shipScale' = shipScale
            /\ ~showConfig ]_vars

\* the velocity has settled on the rounding floor of the drag
AtDragFloor(v) == \A i \in 1 .. 3 : v[i] \in -8 .. 8

C13_ScoreTracksGate ==
    /\ gameState.score = 100 * gameState.currentGate
    /\ gameState.isGameOver =>
           /\ gameState.currentGate = LastGate
           /\ gameState.score = 100 * LastGate

\* C14: a race whose frames all run in AR mode never finishes: currentGate
\* never exceeds 3 and isGameOver never becomes true.
C14_ARNeverFinishes ==
    arEnabled =>
        /\ gameState.currentGate <= 3
        /\ ~gameState.isGameOver

====
